---- MODULE Spec2Model ----
(***************************************************************************)
(* A model of djangorestframework/serializer.py: the Serializer class, its *)
(* field selection, the recursive traversal with its depth and ancestor    *)
(* stack, the registry of serializer classes kept by the metaclass, and    *)
(* the mongoengine document conversion.                                    *)
(*                                                                         *)
(* Python values are modelled as records with a tag:                       *)
(*   [k |-> "prim", id |-> 0, s |-> text]   a string scalar                *)
(*   [k |-> "ref",  id |-> i, s |-> ""]     the dict or list objs[i];      *)
(*                                          `is` compares the id           *)
(* and serialized output as                                                *)
(*   [k |-> "prim", v |-> text], [k |-> "dict", v |-> key -> output],      *)
(*   [k |-> "list", v |-> sequence of outputs], and a number passed        *)
(*   through as [k |-> "int", v |-> its digits].                           *)
(* `None` as a depth is the integer -1 (the callers of the model pass no   *)
(* negative depth).                                                        *)
(***************************************************************************)
EXTENDS Integers, Sequences, FiniteSets, TLC

VARIABLES
    serializers,    \* _serializers: class name -> serializer class
    default_stack,  \* the list object bound as __init__'s default `stack=[]`
    objs,           \* the caller's object graph: id -> dict or list
    call,           \* the arguments of the latest top-level call
    result,         \* what the latest top-level call returned or raised
    trace,          \* the child contexts serialize_val built during that call
    budget          \* top-level calls still allowed in this behaviour

vars == <<serializers, default_stack, objs, call, result, trace, budget>>

\* ---------------------------------------------------------------- bounds

NumObjs == 3
MaxDepth == 2
MaxCalls == 2
MaxDocs == 2
MaxNest == 1

None == -1

\* --------------------------------------------------------------- helpers

Range(s) == {s[i] : i \in DOMAIN s}

RECURSIVE SetToSeq(_)
SetToSeq(S) ==
    IF S = {} THEN <<>>
    ELSE LET x == CHOOSE y \in S : TRUE
         IN  <<x>> \o SetToSeq(S \ {x})

NoDup(s) == \A i, j \in DOMAIN s : i # j => s[i] # s[j]

EmptyMap == [x \in {} |-> x]

\* ------------------------------------------------- field descriptors

NoInfo == [t |-> "none", l |-> <<>>, c |-> ""]
InlineInfo(l) == [t |-> "list", l |-> l, c |-> ""]
ClassInfo(c) == [t |-> "cls", l |-> <<>>, c |-> c]
StrInfo(c) == [t |-> "str", l |-> <<>>, c |-> c]

\* An item of `fields`: a bare name, or a (name, info) tuple.
Bare(n) == <<n>>
Pair(n, info) == <<n, info>>

_field_to_tuple(field) ==
    IF Len(field) >= 2 THEN <<field[1], field[2]>> ELSE <<field[1], NoInfo>>

_fields_to_list(fields) == [i \in DOMAIN fields |-> _field_to_tuple(fields[i])]

\* ------------------------------------------------- serializer classes

\* The attributes a Serializer class declares (lines 73-102).  `include` and
\* `exclude` hold bare names; related_serializer = "" is None, otherwise the
\* name the class is bound to in its module.
Serializer ==
    [name |-> "Serializer", fields |-> <<>>, include |-> <<>>, exclude |-> <<>>,
     rename |-> EmptyMap, related_serializer |-> "", depth |-> None]

\* get_default_fields for a dict: obj.keys(), in the dict's iteration order.
get_default_fields(obj) == SetToSeq(DOMAIN obj)

\* A get_fields that lets include and exclude override `fields`.
get_fields_unconditional(cls, obj) ==
    LET default == get_default_fields(obj)
        fields == Range(default \o cls.include) \ Range(cls.exclude)
    IN  IF cls.fields # <<>> /\ cls.include = <<>> /\ cls.exclude = <<>>
        THEN [kind |-> "tuple", items |-> cls.fields]
        ELSE [kind |-> "set", items |-> SetToSeq({Bare(n) : n \in fields})]

\* get_fields returns the `fields` tuple itself, or a set; a set is held here
\* as one enumeration of its members.
get_fields(cls, obj) ==
    IF cls.fields # <<>>
    THEN [kind |-> "tuple", items |-> cls.fields]
    ELSE LET default == get_default_fields(obj)
             include == cls.include
             exclude == cls.exclude
             fields == Range(default \o include) \ Range(exclude)
         IN  [kind |-> "set", items |-> SetToSeq({Bare(n) : n \in fields})]

Pending == [t |-> "none", v |-> 0]
Ok(v) == [t |-> "ok", v |-> v]

\* ------------------------------------------- specification: get_fields

FieldNames == {"name", "friend", "other"}

FieldTuples ==
    { <<>>,
      <<Bare("name")>>,
      <<Bare("other"), Bare("name")>>,
      <<Bare("name"), Pair("friend", InlineInfo(<<Bare("name")>>))>>,
      <<Bare("absent"), Bare("name"), Bare("name")>> }

PrimOf(s) == [k |-> "prim", id |-> 0, s |-> s]

FieldsInit ==
    /\ serializers = [n \in {"Serializer"} |-> Serializer]
    /\ default_stack = <<>>
    /\ objs = <<>>
    /\ trace = <<>>
    /\ budget = 1
    /\ result = Pending
    /\ \E fields \in FieldTuples, inc \in SUBSET FieldNames,
          exc \in SUBSET FieldNames, keys \in SUBSET FieldNames :
          call = [op |-> "get_fields",
                  cls |-> [Serializer EXCEPT !.name = "Configured",
                                             !.fields = fields,
                                             !.include = SetToSeq(inc),
                                             !.exclude = SetToSeq(exc)],
                  instance |-> [n \in keys |-> PrimOf(n)]]

GetFields ==
    /\ call.op = "get_fields"
    /\ budget > 0
    /\ result' = Ok(get_fields(call.cls, call.instance))
    /\ budget' = budget - 1
    /\ UNCHANGED <<serializers, default_stack, objs, call, trace>>

FieldsNext == GetFields

SpecFields == FieldsInit /\ [][FieldsNext]_vars

\* C6: get_fields returns `fields` verbatim and in order when it is non-empty,
\* whatever include and exclude hold; with `fields` empty it returns exactly
\* (keys of the dict UNION include) MINUS exclude, so a name in both include
\* and exclude is absent and with both empty the result is the key set.
C6_GetFields ==
    (call.op = "get_fields" /\ result.t = "ok") =>
        LET cls == call.cls
            keys == DOMAIN call.instance
            got == result.v
        IN  /\ cls.fields # <<>> => got.kind = "tuple" /\ got.items = cls.fields
            /\ cls.fields = <<>> =>
                 /\ got.kind = "set"
                 /\ NoDup(got.items)
                 /\ Range(got.items) =
                      {Bare(n) : n \in (keys \cup Range(cls.include)) \ Range(cls.exclude)}
                 /\ \A n \in Range(cls.include) \cap Range(cls.exclude) :
                      Bare(n) \notin Range(got.items)
                 /\ (cls.include = <<>> /\ cls.exclude = <<>>) =>
                      Range(got.items) = {Bare(n) : n \in keys}

\* A call with `fields` empty, a name in both include and exclude, an included
\* name the dict lacks, and a result that is not empty.
C6_Witness ==
    /\ call.op = "get_fields" /\ result.t = "ok"
    /\ call.cls.fields = <<>>
    /\ Range(call.cls.include) \cap Range(call.cls.exclude) # {}
    /\ Range(call.cls.include) \ DOMAIN call.instance # {}
    /\ Range(result.v.items) # {}

\* ----------------------------------------------------- the object graph

RefOf(i) == [k |-> "ref", id |-> i, s |-> ""]

\* `obj is elem` (line 180).  Every element of a stack that serialize_val
\* reads is a dict or a list, so identity is identity of the object id.
Is(obj, elem) == obj.k = "ref" /\ elem.k = "ref" /\ obj.id = elem.id

IsDict(obj) == obj.k = "ref" /\ objs[obj.id].kind = "dict"
IsList(obj) == obj.k = "ref" /\ objs[obj.id].kind = "list"

\* ----------------------------------------------------------- registry

\* _RegisterSerializer.__new__: build the class, bind it to its name.
RegisterSerializer(reg, name, cls) ==
    [n \in DOMAIN reg \cup {name} |-> IF n = name THEN cls ELSE reg[n]]

\* The classes of the application, by the name each is bound to in its module.
Shallow == [Serializer EXCEPT !.name = "Shallow", !.depth = 1]

Person ==
    [Serializer EXCEPT
        !.name = "Person",
        !.fields = <<Bare("name"), Pair("friend", StrInfo("Person"))>>]

Inline ==
    [Serializer EXCEPT
        !.name = "Inline",
        !.fields = <<Pair("other", StrInfo("OnTheFlySerializer")),
                     Pair("friend", InlineInfo(<<Bare("name")>>))>>]

Explicit ==
    [Serializer EXCEPT
        !.name = "Explicit",
        !.fields = <<Bare("name"), Pair("friend", ClassInfo("Shallow")),
                     Pair("other", StrInfo("Shallow"))>>]

Related ==
    [Serializer EXCEPT
        !.name = "Related",
        !.exclude = <<"other">>,
        !.rename = [n \in {"name"} |-> "label"],
        !.related_serializer = "Shallow"]

UserClasses == {"Shallow", "Person", "Inline", "Explicit", "Related"}

Class(name) ==
    CASE name = "Shallow" -> Shallow
      [] name = "Person" -> Person
      [] name = "Inline" -> Inline
      [] name = "Explicit" -> Explicit
      [] name = "Related" -> Related
      [] OTHER -> Serializer

\* The classes a class statement names in its body: they exist before it runs.
NamedIn(cls) ==
    {f[2].c : f \in {g \in Range(cls.fields) : Len(g) >= 2 /\ g[2].t = "cls"}}
        \cup (IF cls.related_serializer = "" THEN {} ELSE {cls.related_serializer})

\* ------------------------------------------------------------ Serializer

\* A constructor that lets the depth argument, None included, replace the
\* depth the class declares.
init_depth_overridden(cls, depth, stack) ==
    [cls |-> cls, depth |-> depth, stack |-> stack]

\* __init__(self, depth=None, stack=[]): `stack` is the id of a list object.
__init__(cls, depth, stack) ==
    [cls |-> cls,
     depth |-> IF depth # None THEN depth ELSE cls.depth,
     stack |-> stack]

get_related_serializer(self, info, reg) ==
    IF info.t = "list"
    THEN LET OnTheFlySerializer ==
                 [self.cls EXCEPT !.name = "OnTheFlySerializer", !.fields = info.l]
         IN  [cls |-> OnTheFlySerializer,
              reg |-> RegisterSerializer(reg, "OnTheFlySerializer", OnTheFlySerializer)]
    ELSE IF info.t = "cls"
    THEN [cls |-> Class(info.c), reg |-> reg]
    ELSE IF info.t = "str" /\ info.c \in DOMAIN reg
    THEN [cls |-> reg[info.c], reg |-> reg]
    ELSE [cls |-> IF self.cls.related_serializer # ""
                  THEN Class(self.cls.related_serializer)
                  ELSE Serializer,
          reg |-> reg]

serialize_key(self, key) ==
    IF key \in DOMAIN self.cls.rename THEN self.cls.rename[key] ELSE key

\* A depth that is handed down without the decrement.
child_depth_kept(self) ==
    IF self.depth = None THEN [max |-> FALSE, depth |-> None]
    ELSE IF self.depth <= 0 THEN [max |-> TRUE, depth |-> 0]
    ELSE [max |-> FALSE, depth |-> self.depth]

\* Lines 173-178: the child's depth argument, or max depth reached.
child_depth(self) ==
    IF self.depth = None THEN [max |-> FALSE, depth |-> None]
    ELSE IF self.depth <= 0 THEN [max |-> TRUE, depth |-> 0]
    ELSE [max |-> FALSE, depth |-> self.depth - 1]

\* A check against the innermost ancestor only.
on_stack_top_only(stack, obj) == stack # <<>> /\ Is(obj, stack[Len(stack)])

\* Line 180: any([obj is elem for elem in self.stack]).
on_stack(stack, obj) == \E i \in DOMAIN stack : Is(obj, stack[i])

\* Lines 183-184: stack = self.stack[:] makes a new list object; append.
push_copy(heap, sid, obj) ==
    [heap |-> Append(heap, Append(heap[sid], obj)), sid |-> Len(heap) + 1]

\* A field loop without the except clause.
except_nothing(r) == FALSE

\* Lines 231-232: `except _SkipField: pass` in the field loop.
except_SkipField(r) == r.t = "skip"

Raise(t, st) == [t |-> t, v |-> 0, st |-> st]
Return(v, st) == [t |-> "ok", v |-> v, st |-> st]

\* serialize_fallback: smart_unicode of a string is the text itself.
serialize_fallback(obj) == [k |-> "prim", v |-> obj.s]

\* The interpreter's recursion limit, counted in nested serialize calls; no
\* traversal that ends nests more of them on a graph of NumObjs objects.
RecursionLimit == 2 * NumObjs + 3

RECURSIVE serialize(_, _, _, _)
RECURSIVE serialize_fields(_, _, _, _, _, _, _)
RECURSIVE serialize_items(_, _, _, _, _, _)

\* serialize_val (lines 167-186); serialize_max_depth and serialize_recursion
\* raise _SkipField.
serialize_val(self, key, obj, related_info, st, fuel) ==
    LET related == get_related_serializer(self, related_info, st.reg)
        st1 == [st EXCEPT !.reg = related.reg]
        d == child_depth(self)
    IN  IF d.max THEN Raise("skip", st1)
        ELSE IF on_stack(st1.heap[self.stack], obj) THEN Raise("skip", st1)
        ELSE LET pushed == push_copy(st1.heap, self.stack, obj)
                 child == __init__(related.cls, d.depth, pushed.sid)
                 made == [parent |-> self.depth, cls |-> related.cls.name,
                          declared |-> related.cls.depth, child |-> child.depth,
                          obj |-> obj, before |-> st1.heap[self.stack],
                          stack |-> pushed.heap[child.stack]]
                 st2 == [st1 EXCEPT !.heap = pushed.heap,
                                    !.trace = Append(@, made)]
             IN  serialize(child, obj, st2, fuel - 1)

\* The field loop of serialize_model (lines 211-232), from field i on.
serialize_fields(self, instance, fields, i, data, st, fuel) ==
    IF i > Len(fields) THEN Return([k |-> "dict", v |-> data], st)
    ELSE LET fname == fields[i][1]
             related_info == fields[i][2]
         IN  IF fname \notin DOMAIN instance
             THEN serialize_fields(self, instance, fields, i + 1, data, st, fuel)
             ELSE LET key == serialize_key(self, fname)
                      r == serialize_val(self, fname, instance[fname],
                                         related_info, st, fuel)
                  IN  IF r.t = "ok"
                      THEN serialize_fields(
                               self, instance, fields, i + 1,
                               [n \in DOMAIN data \cup {key} |->
                                    IF n = key THEN r.v ELSE data[n]],
                               r.st, fuel)
                      ELSE IF except_SkipField(r)
                      THEN serialize_fields(self, instance, fields, i + 1,
                                            data, r.st, fuel)
                      ELSE r

serialize_model(self, instance, st, fuel) ==
    LET fields == get_fields(self.cls, instance).items
    IN  serialize_fields(self, instance, _fields_to_list(fields), 1,
                         EmptyMap, st, fuel)

\* serialize_iter (line 240): [self.serialize(item) for item in obj].
serialize_items(self, items, i, out, st, fuel) ==
    IF i > Len(items) THEN Return([k |-> "list", v |-> out], st)
    ELSE LET r == serialize(self, items[i], st, fuel - 1)
         IN  IF r.t = "ok"
             THEN serialize_items(self, items, i + 1, Append(out, r.v), r.st, fuel)
             ELSE r

serialize_iter(self, items, st, fuel) ==
    serialize_items(self, items, 1, <<>>, st, fuel)

\* ------------------------------------------- mongoengine documents

\* Values a document holds besides strings and sub-documents.
ObjectIdOf(hex) == [k |-> "oid", id |-> 0, s |-> hex]
DatetimeOf(year) == [k |-> "datetime", id |-> year, s |-> ""]
IntOf(n) == [k |-> "int", id |-> n, s |-> ""]
NoneValue == [k |-> "none", id |-> 0, s |-> ""]

\* A Document: `items` is the order in which iteration yields its keys and `d`
\* the value me_doc[k] of each key that can be read; reading another key raises.
Document(keys, d) == [kind |-> "doc", d |-> d, items |-> keys]

\* A MongoQuerySet: `items` are the documents iteration yields, in order; an
\* item CursorError stands for the fetch that raises.
MongoQuerySet(items) == [kind |-> "cursor", d |-> EmptyMap, items |-> items]
CursorError == [k |-> "raise", id |-> 0, s |-> "OperationFailure"]

IsMongoQuerySet(obj) == obj.k = "ref" /\ objs[obj.id].kind = "cursor"
IsDocument(obj) == obj.k = "ref" /\ objs[obj.id].kind = "doc"

\* An exclusion list that names the identifier only.
ignore_id_only == {"_id"}

\* Line 267.
ignore == {"_id", "password"}

\* value.strftime('%Y-%m-%dT%H:%M:%S.%fZ') of midnight, 1 January of the
\* year; Python 2 raises ValueError for a year before 1900.
strftime(value) ==
    IF value.id < 1900 THEN [t |-> "ValueError", v |-> 0]
    ELSE [t |-> "ok",
          v |-> [k |-> "prim", v |-> ToString(value.id) \o "-01-01T00:00:00.000000Z"]]

\* str(ObjectId): the 24 hexadecimal digits (here, the digits that differ).
str_ObjectId(value) == [k |-> "prim", v |-> value.s]

\* struct[k] = v
SetItem(struct, k, v) ==
    [n \in DOMAIN struct \cup {k} |-> IF n = k THEN v ELSE struct[n]]

RECURSIVE _convert_to_json(_, _, _, _)
RECURSIVE convert_keys(_, _, _, _, _, _)

\* The loop of _convert_to_json (lines 268-292), from the i-th key on.
convert_keys(me_doc, i, struct, sub_documents, mapping, fuel) ==
    IF i > Len(me_doc.items) THEN [t |-> "ok", v |-> [k |-> "dict", v |-> struct]]
    ELSE LET k0 == me_doc.items[i]
             rest(s) == convert_keys(me_doc, i + 1, s, sub_documents, mapping, fuel)
         IN  IF k0 \in ignore /\ k0 \notin DOMAIN mapping THEN rest(struct)
             ELSE LET value == IF k0 \in DOMAIN me_doc.d THEN me_doc.d[k0]
                               ELSE PrimOf(k0)
                      k == IF k0 \in DOMAIN mapping THEN mapping[k0] ELSE k0
                  IN  IF sub_documents /\ IsDocument(value)
                      THEN LET r == _convert_to_json(objs[value.id], sub_documents,
                                                     mapping, fuel - 1)
                           IN  IF r.t = "ok" THEN rest(SetItem(struct, k, r.v))
                               ELSE r
                      ELSE IF value.k = "datetime"
                      THEN LET r == strftime(value)
                           IN  IF r.t = "ok" THEN rest(SetItem(struct, k, r.v))
                               ELSE r
                      ELSE IF value.k = "prim"
                      THEN rest(SetItem(struct, k, [k |-> "prim", v |-> value.s]))
                      ELSE IF value.k = "oid"
                      THEN rest(SetItem(struct, k, str_ObjectId(value)))
                      ELSE IF value.k = "int"
                      THEN rest(SetItem(struct, k, [k |-> "int", v |-> ToString(value.id)]))
                      ELSE rest(struct)

_convert_to_json(me_doc, sub_documents, mapping, fuel) ==
    IF fuel <= 0 THEN [t |-> "overflow", v |-> 0]
    ELSE convert_keys(me_doc, 1, EmptyMap, sub_documents, mapping, fuel)

\* mongoengine_doc_to_dict (lines 261-296).
mongoengine_doc_to_dict(me_doc, sub_documents, mapping, fuel) ==
    _convert_to_json(me_doc, sub_documents, mapping, fuel)

\* Lines 303-307: self.mapping, or {} when the serializer has none.
get_mapping(self) ==
    IF "mapping" \in DOMAIN self THEN self.mapping ELSE EmptyMap

\* A loop that catches KeyError only.
except_KeyError(r) == r.t = "KeyError"

\* Line 323: `except Exception`.
except_Exception(r) == r.t \in {"ValueError", "OperationFailure", "overflow"}

\* Line 324.
logger_exception(st) ==
    [st EXCEPT !.trace = Append(@, [logged |-> "Exception serializing MongoQuerySet"])]

RECURSIVE serialize_queryset(_, _, _, _, _, _)

\* The MongoQuerySet branch of serialize (lines 315-326), from item i on.
serialize_queryset(items, i, json_info, mapping, st, fuel) ==
    IF i > Len(items) THEN Return([k |-> "list", v |-> json_info], st)
    ELSE LET array_element == items[i]
             r == IF array_element = CursorError
                  THEN [t |-> array_element.s, v |-> 0]
                  ELSE mongoengine_doc_to_dict(objs[array_element.id], TRUE,
                                               mapping, fuel - 1)
         IN  IF r.t = "ok"
             THEN serialize_queryset(items, i + 1, Append(json_info, r.v), mapping,
                                     st, fuel)
             ELSE IF except_Exception(r)
             THEN Return([k |-> "list", v |-> json_info], logger_exception(st))
             ELSE Raise(r.t, st)

\* serialize (lines 298-349) on a dict, a list, a MongoQuerySet, a Document
\* or a string.
serialize(self, obj, st, fuel) ==
    IF fuel <= 0 THEN Raise("overflow", st)
    ELSE IF IsDict(obj) THEN serialize_model(self, objs[obj.id].d, st, fuel)
    ELSE IF IsList(obj) THEN serialize_iter(self, objs[obj.id].items, st, fuel)
    ELSE IF IsMongoQuerySet(obj)
    THEN serialize_queryset(objs[obj.id].items, 1, <<>>, get_mapping(self),
                            st, fuel)
    ELSE IF IsDocument(obj)
    THEN LET r == mongoengine_doc_to_dict(objs[obj.id], FALSE, get_mapping(self),
                                          fuel - 1)
         IN  IF r.t = "ok" THEN Return(r.v, st) ELSE Raise(r.t, st)
    ELSE Return(serialize_fallback(obj), st)

\* ------------------------------------------------------- top-level calls

Depths == {None} \cup 0..MaxDepth

\* C(depth=d).serialize(root), or C().serialize(root) when d is None: the
\* new serializer's stack is the default list.
Serialize(c, d) ==
    /\ budget > 0
    /\ c \in DOMAIN serializers
    /\ LET self == __init__(Class(c), d, 1)
           st == [reg |-> serializers, heap |-> <<default_stack>>, trace |-> <<>>]
           r == serialize(self, RefOf(1), st, RecursionLimit)
       IN  /\ serializers' = r.st.reg
           /\ default_stack' = r.st.heap[1]
           /\ trace' = r.st.trace
           /\ result' = [t |-> r.t, v |-> r.v]
    /\ call' = [op |-> "serialize", cls |-> c, depth |-> d]
    /\ budget' = budget - 1
    /\ UNCHANGED objs

\* ------------------------------------------------------ the graphs

Names == <<"Alice", "Bob", "Carol", "Dave", "Erin", "Frank">>

Kinds == {"dict", "list"}

\* Object i holds its name and a reference `friend`; object 1 may hold a second
\* reference `other`.  A list holds the same references as items.
Object(i, kind, friend, other) ==
    LET refs == (IF friend = 0 THEN <<>> ELSE <<<<"friend", RefOf(friend)>>>>)
                \o (IF other = 0 THEN <<>> ELSE <<<<"other", RefOf(other)>>>>)
        keys == {"name"} \cup {refs[j][1] : j \in DOMAIN refs}
    IN  IF kind = "dict"
        THEN [kind |-> "dict",
              d |-> [n \in keys |->
                        IF n = "name" THEN PrimOf(Names[i])
                        ELSE IF n = "friend" THEN RefOf(friend) ELSE RefOf(other)],
              items |-> <<>>]
        ELSE [kind |-> "list", d |-> EmptyMap,
              items |-> [j \in DOMAIN refs |-> refs[j][2]]]

Graph(n, kind, friend, other) ==
    [i \in 1..n |-> Object(i, kind[i], friend[i], IF i = 1 THEN other ELSE 0)]

RefsOf(o) ==
    IF o.kind = "dict"
    THEN {o.d[n].id : n \in {m \in DOMAIN o.d : o.d[m].k = "ref"}}
    ELSE {o.items[j].id : j \in DOMAIN o.items}

RECURSIVE Reach(_, _, _)
Reach(g, seen, k) ==
    IF k = 0 THEN seen
    ELSE Reach(g, seen \cup UNION {RefsOf(g[i]) : i \in seen}, k - 1)

Graphs ==
    UNION {
        { g \in { Graph(n, kind, friend, other) :
                    kind \in [1..n -> Kinds],
                    friend \in { f \in [1..n -> 0..n] :
                                   \A i \in 1..n : f[i] <= i + 1 },
                    other \in 0..n } :
            Reach(g, {1}, n) = 1..n }
        : n \in 1..NumObjs }

\* ---------------------------------------- specification: one traversal

Init ==
    /\ serializers = [n \in {"Serializer"} |-> Serializer]
    /\ default_stack = <<>>
    /\ objs \in Graphs
    /\ call = [op |-> "none"]
    /\ result = Pending
    /\ trace = <<>>
    /\ budget = 1

Next == \E d \in Depths : Serialize("Serializer", d)

Spec == Init /\ [][Next]_vars

\* ------------------------------------------------ claims: one traversal

OutPrim(s) == [k |-> "prim", v |-> s]
OutDict(f) == [k |-> "dict", v |-> f]

Root == RefOf(1)
Occurs(stack, obj) == \E i \in DOMAIN stack : stack[i] = obj
Served == call.op = "serialize"

\* A whose field `friend` is A itself; Alice whose friend is Bob whose friend
\* is Alice.
SelfFriend == Graph(1, <<"dict">>, <<1>>, 0)
AliceBob == Graph(2, <<"dict", "dict">>, <<2, 1>>, 0)

\* C1 as stated: with depth unlimited no field is expanded whose value is
\* already being serialized on the current path, the top-level object
\* included; serialize(A) has no key `friend`, and serialize(Alice) is
\* {"name": "Alice", "friend": {"name": "Bob"}}.
C1_TopLevelOnPath ==
    (Served /\ call.depth = None /\ result.t = "ok") =>
        /\ \A e \in Range(trace) : e.obj # Root /\ ~Occurs(e.before, e.obj)
        /\ objs = SelfFriend => "friend" \notin DOMAIN result.v.v
        /\ objs = AliceBob =>
             result.v = OutDict([name |-> OutPrim("Alice"),
                                 friend |-> OutDict([name |-> OutPrim("Bob")])])

\* C1 amended: with depth unlimited no field is expanded whose value is on
\* the serializer's ancestor stack, which holds the values entered through a
\* field on the current path and not the top-level object: a field that
\* refers back to the top-level object is expanded once more.  serialize(A)
\* is {"name": "Alice", "friend": {"name": "Alice"}} and serialize(Alice) is
\* {"name": "Alice", "friend": {"name": "Bob", "friend": {"name": "Alice"}}}.
C1_CycleSkipped ==
    (Served /\ call.depth = None) =>
        /\ \A e \in Range(trace) : ~Occurs(e.before, e.obj)
        /\ objs = SelfFriend =>
             result = Ok(OutDict([name |-> OutPrim("Alice"),
                                  friend |-> OutDict([name |-> OutPrim("Alice")])]))
        /\ objs = AliceBob =>
             result = Ok(OutDict(
                 [name |-> OutPrim("Alice"),
                  friend |-> OutDict(
                      [name |-> OutPrim("Bob"),
                       friend |-> OutDict([name |-> OutPrim("Alice")])])]))

\* Alice and Bob serialized with depth unlimited: the back reference from
\* Bob to Alice was followed and the one from Alice to Bob, on the stack, not.
C1_Witness ==
    /\ Served /\ call.depth = None /\ objs = AliceBob /\ result.t = "ok"
    /\ \E e \in Range(trace) : e.obj = Root /\ e.before = <<RefOf(2)>>
    /\ "friend" \notin DOMAIN result.v.v["friend"].v["friend"].v

\* C2: serialize returns for every finite graph of dicts, lists and strings,
\* the graphs with reference cycles included, at every depth setting.
C2_Terminates == Served => result.t # "overflow"

\* The chain of n dicts, each holding its name and the next dict as `friend`.
Chain(n) ==
    Graph(n, [i \in 1..n |-> "dict"], [i \in 1..n |-> IF i < n THEN i + 1 ELSE 0], 0)

IsChain == objs = Chain(Len(objs))

Deeper(depth) == IF depth = None THEN None ELSE depth - 1

RECURSIVE ClaimedChain(_, _, _)
ClaimedChain(i, n, depth) ==
    IF i < n /\ depth # 0
    THEN OutDict([name |-> OutPrim(Names[i]),
                  friend |-> ClaimedChain(i + 1, n, Deeper(depth))])
    ELSE OutDict([name |-> OutPrim(Names[i])])

RECURSIVE EmittedChain(_, _, _)
EmittedChain(i, n, depth) ==
    IF depth = 0 THEN OutDict(EmptyMap)
    ELSE IF i < n
    THEN OutDict([name |-> OutPrim(Names[i]),
                  friend |-> EmittedChain(i + 1, n, Deeper(depth))])
    ELSE OutDict([name |-> OutPrim(Names[i])])

\* C3 as stated: on a chain, depth=N yields the root and N nested levels, each
\* with its primitive fields, and omits only the field holding the next level;
\* depth=0 keeps the root's primitive fields; depth=None omits nothing.
C3_PrimitivesKept ==
    (Served /\ IsChain) => result = Ok(ClaimedChain(1, Len(objs), call.depth))

\* C3 amended: on a chain, depth=N yields the root and up to N nested levels;
\* the levels above nesting level N are emitted with all their fields and the
\* dict at nesting level N is emitted empty, since a serializer whose depth is
\* 0 skips every field, the primitive-valued ones too: depth=0 yields {} for
\* the root.  depth=None omits no field because of depth.
C3_DepthLevels ==
    (Served /\ IsChain) => result = Ok(EmittedChain(1, Len(objs), call.depth))

\* A chain longer than the depth: depth=1 on three dicts, whose second level
\* comes out empty.
C3_Witness ==
    /\ Served /\ IsChain /\ Len(objs) = 3 /\ call.depth = 1
    /\ result = Ok(OutDict([name |-> OutPrim("Alice"), friend |-> OutDict(EmptyMap)]))

\* The keys of dict i whose value serialize_val skips under a serializer of
\* the given depth and stack.
Skipped(i, depth, stack) ==
    {n \in DOMAIN objs[i].d : depth = 0 \/ Occurs(stack, objs[i].d[n])}

\* C5: no call ends with the skip signal; a skip removes one field from the
\* dict whose loop caught it and nothing else: the root dict (and every dict
\* item of a root list) keeps every key but the skipped ones, so does a dict
\* one field below the root, and a list keeps one output per item.
C5_SkipCaught ==
    Served =>
        /\ result.t # "skip"
        /\ (result.t = "ok" /\ objs[1].kind = "dict") =>
             /\ DOMAIN result.v.v = DOMAIN objs[1].d \ Skipped(1, call.depth, <<>>)
             /\ \A n \in DOMAIN result.v.v :
                  LET val == objs[1].d[n]
                  IN  (val.k = "ref" /\ objs[val.id].kind = "dict") =>
                        DOMAIN result.v.v[n].v =
                            DOMAIN objs[val.id].d
                              \ Skipped(val.id, Deeper(call.depth), <<val>>)
        /\ (result.t = "ok" /\ objs[1].kind = "list") =>
             /\ Len(result.v.v) = Len(objs[1].items)
             /\ \A j \in DOMAIN objs[1].items :
                  LET item == objs[1].items[j]
                  IN  objs[item.id].kind = "dict" =>
                        DOMAIN result.v.v[j].v =
                            DOMAIN objs[item.id].d
                              \ Skipped(item.id, call.depth, <<>>)

\* A dict below the root lost the field that refers to itself and kept its
\* name, and the root kept both of its fields.
C5_Witness ==
    /\ Served /\ result.t = "ok" /\ call.depth = None
    /\ objs = Graph(2, <<"dict", "dict">>, <<2, 2>>, 0)
    /\ result.v = OutDict([name |-> OutPrim("Alice"),
                           friend |-> OutDict([name |-> OutPrim("Bob")])])

\* --------------------------- specification: classes and repeated calls

\* A class statement of the application runs: the metaclass registers the
\* class.  The classes its body names are bound already.
DefineSerializer(c) ==
    /\ c \notin DOMAIN serializers
    /\ NamedIn(Class(c)) \subseteq DOMAIN serializers
    /\ serializers' = RegisterSerializer(serializers, c, Class(c))
    /\ UNCHANGED <<default_stack, objs, call, result, trace, budget>>

\* root.friend = 2 and root.other = 2; root.friend = 2, 2.friend = 3 and
\* root.other = 2 or 3.
ConfigGraphs ==
    { SelfFriend, AliceBob, Chain(3),
      Graph(2, <<"dict", "dict">>, <<2, 0>>, 2),
      Graph(3, <<"dict", "dict", "dict">>, <<2, 3, 0>>, 2),
      Graph(3, <<"dict", "dict", "dict">>, <<2, 3, 0>>, 3),
      Graph(3, <<"dict", "list", "dict">>, <<2, 3, 1>>, 3) }

ConfigInit ==
    /\ serializers = [n \in {"Serializer"} |-> Serializer]
    /\ default_stack = <<>>
    /\ objs \in ConfigGraphs
    /\ call = [op |-> "none"]
    /\ result = Pending
    /\ trace = <<>>
    /\ budget = MaxCalls

ConfigNext ==
    \/ \E c \in UserClasses : DefineSerializer(c)
    \/ \E c \in UserClasses \cup {"Serializer"}, d \in Depths : Serialize(c, d)

SpecConfig == ConfigInit /\ [][ConfigNext]_vars

IsCall == budget' = budget - 1

\* C4: a serialize call leaves the registry as it was: the same names bound
\* to the same classes, also when the call resolves an inline field list.
C4_RegistryReadOnly == [][IsCall => serializers' = serializers]_vars

\* C8 as stated: every child context serialize_val builds has its parent's
\* depth minus one when the parent's depth is tracked and unlimited depth
\* when the parent's is unlimited, whatever class was resolved for it.
C8_DepthInherited ==
    \A e \in Range(trace) :
        /\ e.parent # None => e.child = e.parent - 1
        /\ e.parent = None => e.child = None

\* C8 amended: every child context has its parent's depth minus one when the
\* parent's depth is tracked, whatever class was resolved and whatever depth
\* it declares; when the parent's depth is unlimited the child's depth is the
\* depth the resolved class declares, unlimited only if it declares none.
C8_DepthDeclared ==
    \A e \in Range(trace) :
        /\ e.parent # None => e.child = e.parent - 1
        /\ e.parent = None => e.child = e.declared

\* In one call, a child built by a parent of unlimited depth for a class that
\* declares depth 1, and a child built by a parent of depth 1.
C8_Witness ==
    /\ \E e \in Range(trace) :
         e.parent = None /\ e.declared = 1 /\ e.child = 1 /\ e.cls = "Shallow"
    /\ \E e \in Range(trace) :
         e.parent = 1 /\ e.declared = None /\ e.child = 0

\* C9: a serialize call leaves the default stack list as it was, empty; every
\* child context gets a new list, its parent's stack and the value entered;
\* and a call repeated with the same class, depth and object returns what the
\* call before it returned.
C9_StackFresh ==
    [][IsCall =>
          /\ default_stack' = default_stack /\ default_stack' = <<>>
          /\ \A e \in Range(trace') : e.stack = Append(e.before, e.obj)
          /\ call' = call => result' = result]_vars

\* ------------------------- specification: converting one document

\* The mapping tables callers pass: none, one that remaps an excluded key,
\* one whose target is another key of the document, one whose target is an
\* excluded key, one with two sources and one target.
Mappings ==
    { EmptyMap, [_id |-> "id"], [password |-> "pw"], [_id |-> "name"],
      [name |-> "password"], [_id |-> "uid", password |-> "uid"] }

Absent == [k |-> "absent", id |-> 0, s |-> ""]
Unreadable == [k |-> "unreadable", id |-> 0, s |-> ""]

IdValues == {Absent, ObjectIdOf("4f9a")}
PasswordValues == {Absent, PrimOf("secret"), NoneValue}
NameValues == {PrimOf("Alice"), DatetimeOf(2012), DatetimeOf(1899), IntOf(7),
               Unreadable}
SubNameValues == {PrimOf("Bob"), NoneValue}

Reverse(s) == [j \in DOMAIN s |-> s[Len(s) + 1 - j]]

\* The document with these values under _id, password, name and profile,
\* iterated in this order or in the reverse order.
DocumentOf(id, pw, nm, prof, rev) ==
    LET all == <<<<"_id", id>>, <<"password", pw>>, <<"name", nm>>,
                 <<"profile", prof>>>>
        es == SelectSeq(all, LAMBDA e : e[2] # Absent)
        keys == [j \in DOMAIN es |-> es[j][1]]
        readable == {es[j][1] : j \in {i \in DOMAIN es : es[i][2] # Unreadable}}
    IN  Document(IF rev THEN Reverse(keys) ELSE keys,
                 [n \in readable |->
                     (CHOOSE e \in Range(es) : e[1] = n)[2]])

\* Document 1 and, under `profile`, a chain of up to MaxNest sub-documents.
DocumentChains ==
    UNION {
        { [i \in 1..n |->
             DocumentOf(id[i], pw[i], IF i = 1 THEN nm ELSE sub[i],
                        IF i < n THEN RefOf(i + 1) ELSE Absent,
                        i = 1 /\ rev)] :
            id \in [1..n -> IdValues], pw \in [1..n -> PasswordValues],
            nm \in NameValues, sub \in [1..n -> SubNameValues],
            rev \in BOOLEAN }
        : n \in 1..(MaxNest + 1) }

\* serializer.mongoengine_doc_to_dict(doc, sub_documents, mapping)
DocToDict(sub_documents, mapping) ==
    /\ budget > 0
    /\ IsDocument(RefOf(1))
    /\ LET r == mongoengine_doc_to_dict(objs[1], sub_documents, mapping,
                                        RecursionLimit)
       IN  result' = [t |-> r.t, v |-> r.v]
    /\ call' = [op |-> "mongoengine_doc_to_dict",
                sub_documents |-> sub_documents, mapping |-> mapping]
    /\ budget' = budget - 1
    /\ UNCHANGED <<serializers, default_stack, objs, trace>>

\* s = Serializer(); s.mapping = mapping; s.serialize(root)
SerializeMapped(mapping) ==
    /\ budget > 0
    /\ LET made == __init__(Class("Serializer"), None, 1)
           self == [cls |-> made.cls, depth |-> made.depth, stack |-> made.stack,
                    mapping |-> mapping]
           st == [reg |-> serializers, heap |-> <<default_stack>>, trace |-> <<>>]
           r == serialize(self, RefOf(1), st, RecursionLimit)
       IN  /\ serializers' = r.st.reg
           /\ default_stack' = r.st.heap[1]
           /\ trace' = r.st.trace
           /\ result' = [t |-> r.t, v |-> r.v]
    /\ call' = [op |-> "serialize", cls |-> "Serializer", depth |-> None,
                mapping |-> mapping]
    /\ budget' = budget - 1
    /\ UNCHANGED objs

DocumentInit ==
    /\ serializers = [n \in {"Serializer"} |-> Serializer]
    /\ default_stack = <<>>
    /\ objs \in DocumentChains
    /\ call = [op |-> "none"]
    /\ result = Pending
    /\ trace = <<>>
    /\ budget = 1

DocumentNext ==
    \/ \E sub_documents \in BOOLEAN, mapping \in Mappings :
          DocToDict(sub_documents, mapping)
    \/ \E mapping \in Mappings : SerializeMapped(mapping)

SpecDocument == DocumentInit /\ [][DocumentNext]_vars

Excluded == {"_id", "password"}
Converted == call.op = "mongoengine_doc_to_dict" /\ result.t = "ok"

Admitted(k, mapping) == k \notin Excluded \/ k \in DOMAIN mapping
Target(k, mapping) == IF k \in DOMAIN mapping THEN mapping[k] ELSE k
ValueAt(doc, k) == IF k \in DOMAIN doc.d THEN doc.d[k] ELSE PrimOf(k)
Emitted(value, sub) ==
    \/ sub /\ IsDocument(value)
    \/ value.k \in {"prim", "oid", "datetime", "int"}

\* A key after the i-th writes the output key the i-th wrote.
Overwritten(doc, i, sub, mapping) ==
    \E j \in DOMAIN doc.items :
        /\ j > i
        /\ Admitted(doc.items[j], mapping)
        /\ Target(doc.items[j], mapping) = Target(doc.items[i], mapping)
        /\ Emitted(ValueAt(doc, doc.items[j]), sub)

RECURSIVE Excludes(_, _, _, _, _)
RECURSIVE Renders(_, _, _, _, _)

\* The output entry `o` is what the conversion makes of `value`.
Renders(value, o, sub, mapping, always) ==
    IF sub /\ IsDocument(value)
    THEN Excludes(objs[value.id], o, sub, mapping, always)
    ELSE CASE value.k \in {"prim", "oid"} -> o = [k |-> "prim", v |-> value.s]
           [] value.k = "datetime" ->
                  o = [k |-> "prim",
                       v |-> ToString(value.id) \o "-01-01T00:00:00.000000Z"]
           [] value.k = "int" -> o = [k |-> "int", v |-> ToString(value.id)]
           [] OTHER -> FALSE

\* In the output `out` of document `doc`, and in the output of every
\* sub-document converted with it: every entry is the value of a key that is
\* not excluded or is a source key of the mapping, under that key's target;
\* and the value of an excluded key that is a source key of the mapping is
\* the entry under its target: always, or else when the value is of an
\* emitted type and no later key writes the same target.
Excludes(doc, out, sub, mapping, always) ==
    /\ out.k = "dict"
    /\ \A t \in DOMAIN out.v :
          \E i \in DOMAIN doc.items :
              /\ Admitted(doc.items[i], mapping)
              /\ Target(doc.items[i], mapping) = t
              /\ Renders(ValueAt(doc, doc.items[i]), out.v[t], sub, mapping, always)
    /\ \A i \in DOMAIN doc.items :
          LET k == doc.items[i]
          IN  /\ k \in Excluded \cap DOMAIN mapping
              /\ \/ always
                 \/ /\ Emitted(ValueAt(doc, k), sub)
                    /\ ~Overwritten(doc, i, sub, mapping)
              => /\ mapping[k] \in DOMAIN out.v
                 /\ Renders(ValueAt(doc, k), out.v[mapping[k]], sub, mapping, always)

\* C7 as stated: in a converted document and its converted sub-documents, a
\* key _id or password that is no source key of the mapping contributes no
\* entry, and one that is a source key has its value under the remapped key.
C7_RemappedAppears ==
    Converted => Excludes(objs[1], result.v, call.sub_documents, call.mapping, TRUE)

\* C7 amended: in a converted document and its converted sub-documents, a key
\* _id or password that is no source key of the mapping contributes no entry;
\* one that is a source key is converted like any other key, so its value is
\* the entry under the remapped key, and under that key only, when the value
\* is of an emitted type and no later key is written to the same output key.
C7_ExcludedUnlessMapped ==
    Converted => Excludes(objs[1], result.v, call.sub_documents, call.mapping, FALSE)

\* A document with _id and password whose sub-document has an _id, converted
\* with its sub-documents under a mapping that remaps password only: the
\* output has the password under the remapped key and the sub-document.
C7_Witness ==
    /\ Converted
    /\ call.sub_documents
    /\ call.mapping = [password |-> "pw"]
    /\ {"_id", "password", "profile"} \subseteq DOMAIN objs[1].d
    /\ "_id" \in DOMAIN objs[2].d
    /\ {"pw", "profile"} \subseteq DOMAIN result.v.v
    /\ result.v.v["profile"].k = "dict"

\* --------------------------- specification: serializing a query set

\* The collection: a document that converts; one whose date makes strftime
\* raise; one whose sub-document is that one; one whose sub-document
\* converts; one that is its own sub-document.
Collection ==
    <<DocumentOf(ObjectIdOf("4f9a"), PrimOf("secret"), PrimOf("Alice"), Absent, FALSE),
      DocumentOf(ObjectIdOf("4f9b"), Absent, DatetimeOf(1899), Absent, FALSE),
      DocumentOf(Absent, Absent, PrimOf("Carol"), RefOf(3), FALSE),
      DocumentOf(ObjectIdOf("4f9d"), NoneValue, DatetimeOf(2012), RefOf(2), TRUE),
      DocumentOf(Absent, Absent, PrimOf("Erin"), RefOf(6), FALSE)>>

\* What iterating a query set yields: up to MaxDocs documents of the
\* collection, or a fetch that raises.
Cursors ==
    UNION { [1..n -> {RefOf(i + 1) : i \in DOMAIN Collection} \cup {CursorError}]
            : n \in 0..MaxDocs }

QuerySetInit ==
    /\ serializers = [n \in {"Serializer"} |-> Serializer]
    /\ default_stack = <<>>
    /\ objs \in {<<MongoQuerySet(c)>> \o Collection : c \in Cursors}
    /\ call = [op |-> "none"]
    /\ result = Pending
    /\ trace = <<>>
    /\ budget = 1

QuerySetNext ==
    \/ \E mapping \in Mappings : SerializeMapped(mapping)
    \/ Serialize("Serializer", None)

SpecQuerySet == QuerySetInit /\ [][QuerySetNext]_vars

MappingOf(c) == IF "mapping" \in DOMAIN c THEN c.mapping ELSE EmptyMap

\* The conversion of the document a query set yields, sub-documents included.
Conversion(item) ==
    mongoengine_doc_to_dict(objs[item.id], TRUE, MappingOf(call),
                            RecursionLimit - 1)

\* Fetching or converting the item raises.
Fails(item) == item = CursorError \/ Conversion(item).t # "ok"

\* The items before the first one that fails.
Preceding(items) ==
    {j \in DOMAIN items : \A i \in 1..j : ~Fails(items[i])}

\* C10: serialize of a query set raises nothing and returns the conversions
\* of the documents before the first one whose fetch or conversion raises,
\* in their order: none when the first fails, all when none fails.
C10_PrefixReturned ==
    Served /\ IsMongoQuerySet(Root) =>
        LET items == objs[1].items
        IN  /\ result.t = "ok"
            /\ result.v.k = "list"
            /\ DOMAIN result.v.v = Preceding(items)
            /\ \A j \in Preceding(items) : result.v.v[j] = Conversion(items[j]).v

\* A query set of two documents whose second has a sub-document that does
\* not convert: one conversion is returned and the exception is logged.
C10_Witness ==
    /\ Served /\ IsMongoQuerySet(Root)
    /\ Len(objs[1].items) = 2
    /\ objs[1].items[2] = RefOf(4)
    /\ result.t = "ok"
    /\ Len(result.v.v) = 1
    /\ Len(trace) = 1

====
